---------------------------- MODULE Spec2Model ----------------------------
(***************************************************************************)
(* A model of lodash-deep (src/lodash-deep.js): the property-path parser   *)
(* getProperties, deepEscapePropertyName, the tree navigators deepIn,      *)
(* deepHas, deepGet and deepOwn, the mutator deepSet and deepMapValues.    *)
(*                                                                         *)
(* A JavaScript string is a sequence of one-character strings, a property  *)
(* path is a sequence of such strings (its segments).  A JavaScript value  *)
(* is a record [kind, val, props, proto]: props are its own properties,    *)
(* proto the properties it inherits (the prototype chain, flattened).      *)
(* Trees hold no shared or cyclic references, so an object is identified   *)
(* with its place in the tree, and an in-place mutation of the caller's    *)
(* object is the update of the variable that holds it.  Properties are     *)
(* entries (keys and indexes) holding plain data: the derived length of an *)
(* array, accessors and frozen objects are not part of the model.          *)
(***************************************************************************)
EXTENDS Integers, Sequences, FiniteSets, TLC

VARIABLES
    pc,          \* "ready" before the call under study, "done" after it
    collection,  \* the caller's object tree (the root object/array)
    last,        \* the last call: its arguments, what it returned
    written,     \* history: path -> value of the deepSet calls still in force
    nops         \* number of deepSet calls made

vars == <<pc, collection, last, written, nops>>

----------------------------------------------------------------------------
(* Bounds of the model *)

MaxStrLen == 5
MaxNameLen == 3
MaxPathLen == 3
MaxOps == 2
MaxDepth == 2
MaxArrayLen == 1

----------------------------------------------------------------------------
(* Strings *)

Str1(a) == <<a>>

StringsUpTo(chars, n) == UNION {[1..k -> chars] : k \in 0..n}

\* The characters the parser distinguishes, and ordinary ones.
ParseChars == {"a", "0", ".", "\\", "[", "]"}

RECURSIVE Concat(_)
Concat(seqs) == IF seqs = <<>> THEN <<>> ELSE Head(seqs) \o Concat(Tail(seqs))

RECURSIVE CountChar(_, _)
CountChar(s, ch) ==
    IF s = <<>> THEN 0
    ELSE (IF Head(s) = ch THEN 1 ELSE 0) + CountChar(Tail(s), ch)

----------------------------------------------------------------------------
(* getProperties: the property path as array (lines 196-243) *)

\* A propertyPath argument: an array of segments, a string, or anything else.
ArrayPath(segs) == [type |-> "array", value |-> segs]
StringPath(chars) == [type |-> "string", value |-> chars]
OtherPath == [type |-> "other", value |-> <<>>]

\* var escape = false; var path = []; var step = '';
ScanInit == [escape |-> FALSE, path |-> <<>>, step |-> <<>>]

\* A scanner that drops every un-escaped "]".
ScanCharDropClose(st, ch) ==
    IF ch = "\\"
    THEN IF st.escape
         THEN [st EXCEPT !.step = Append(@, ch), !.escape = FALSE]
         ELSE [st EXCEPT !.escape = TRUE]
    ELSE IF ch = "."
    THEN IF st.escape
         THEN [st EXCEPT !.step = Append(@, ch), !.escape = FALSE]
         ELSE [st EXCEPT !.path = Append(@, st.step), !.step = <<>>]
    ELSE IF ch = "]" /\ ~st.escape
    THEN st
    ELSE [st EXCEPT !.escape = FALSE, !.step = Append(@, ch)]

\* A scanner that ends the segment at an un-escaped "[" as at a ".".
ScanCharSplitOpen(st, ch) ==
    IF ch = "\\"
    THEN IF st.escape
         THEN [st EXCEPT !.step = Append(@, ch), !.escape = FALSE]
         ELSE [st EXCEPT !.escape = TRUE]
    ELSE IF ch \in {".", "["}
    THEN IF st.escape
         THEN [st EXCEPT !.step = Append(@, ch), !.escape = FALSE]
         ELSE [st EXCEPT !.path = Append(@, st.step), !.step = <<>>]
    ELSE [st EXCEPT !.escape = FALSE, !.step = Append(@, ch)]

\* One turn of the loop: the switch on ch.
ScanChar(st, ch) ==
    IF ch = "\\"
    THEN IF st.escape
         THEN [st EXCEPT !.step = Append(@, ch), !.escape = FALSE]
         ELSE [st EXCEPT !.escape = TRUE]
    ELSE IF ch = "."
    THEN IF st.escape
         THEN [st EXCEPT !.step = Append(@, ch), !.escape = FALSE]
         ELSE [st EXCEPT !.path = Append(@, st.step), !.step = <<>>]
    ELSE [st EXCEPT !.escape = FALSE, !.step = Append(@, ch)]

RECURSIVE Scan(_, _, _)
Scan(s, i, st) ==
    IF i > Len(s) THEN st ELSE Scan(s, i + 1, ScanChar(st, s[i]))

getProperties(propertyPath) ==
    IF propertyPath.type = "array" THEN propertyPath.value
    ELSE IF propertyPath.type # "string" THEN <<>>
    ELSE LET st == Scan(propertyPath.value, 1, ScanInit)
         IN  Append(st.path, st.step)      \* capture the final step

----------------------------------------------------------------------------
(* deepEscapePropertyName (lines 154-158) *)

RECURSIVE ReplaceAll(_, _, _)
ReplaceAll(s, ch, by) ==
    IF s = <<>> THEN <<>>
    ELSE (IF Head(s) = ch THEN by ELSE <<Head(s)>>) \o ReplaceAll(Tail(s), ch, by)

\* The two replacements in the other order.
EscapeDotsFirst(propertyName) ==
    ReplaceAll(ReplaceAll(propertyName, ".", <<"\\", ".">>),
               "\\", <<"\\", "\\">>)

deepEscapePropertyName(propertyName) ==
    ReplaceAll(ReplaceAll(propertyName, "\\", <<"\\", "\\">>),
               ".", <<"\\", ".">>)

----------------------------------------------------------------------------
(* Values *)

EmptyProps == [k \in {} |-> 0]

Prim(kind, val) ==
    [kind |-> kind, val |-> val, props |-> EmptyProps, proto |-> EmptyProps]

Undefined == Prim("undefined", 0)
Num(n) == Prim("number", n)
\* What evaluating an expression that throws a TypeError yields.
TypeErrorThrown == Prim("TypeError", 0)

Obj(props) == [kind |-> "object", val |-> 0, props |-> props, proto |-> EmptyProps]
Arr(props) == [kind |-> "array", val |-> 0, props |-> props, proto |-> EmptyProps]
DateV == [kind |-> "date", val |-> 0, props |-> EmptyProps, proto |-> EmptyProps]
RegExpV == [kind |-> "regexp", val |-> 0, props |-> EmptyProps, proto |-> EmptyProps]
\* An object created with a prototype that exposes the properties of proto.
ObjWithProto(props, proto) ==
    [kind |-> "object", val |-> 0, props |-> props, proto |-> proto]

EmptyObject == Obj(EmptyProps)
EmptyArray == Arr(EmptyProps)

\* One-property and two-property maps.
P1(k, v) == [x \in {k} |-> v]
P2(k1, v1, k2, v2) == [x \in {k1, k2} |-> IF x = k1 THEN v1 ELSE v2]

----------------------------------------------------------------------------
(* The collaborators: lodash predicates and JavaScript property access *)

\* _.isObject: objects, arrays, dates and regular expressions; no primitive.
isObject(value) == value.kind \in {"object", "array", "date", "regexp"}

\* property in collection: own or inherited.
HasProperty(object, property) ==
    property \in (DOMAIN object.props) \cup (DOMAIN object.proto)

\* collection.hasOwnProperty(property)
hasOwnProperty(object, property) == property \in DOMAIN object.props

\* object[property]: reading a property of undefined throws a TypeError, an
\* absent property reads as undefined.
GetProp(object, property) ==
    IF object.kind \in {"undefined", "TypeError"} THEN TypeErrorThrown
    ELSE IF property \in DOMAIN object.props THEN object.props[property]
    ELSE IF property \in DOMAIN object.proto THEN object.proto[property]
    ELSE Undefined

Put(f, k, v) == [x \in (DOMAIN f) \cup {k} |-> IF x = k THEN v ELSE f[x]]

\* object[property] = value: creates or overwrites the own property.
SetProp(object, property, value) ==
    [object EXCEPT !.props = Put(@, property, value)]

\* Number(string) % 1 === 0 for a string of the characters of the model
\* (a b x 0 . \ [ ]): the empty string is 0, a decimal literal of zeros is 0,
\* a hexadecimal (0x..) or binary (0b..) literal is an integer, anything else
\* is NaN.
AllIn(s, chars) == \A i \in 1..Len(s) : s[i] \in chars

IsDecimalLiteral(s) ==
    /\ AllIn(s, {"0", "."})
    /\ CountChar(s, ".") <= 1
    /\ CountChar(s, "0") >= 1

IsRadixLiteral(s) ==
    /\ Len(s) >= 3
    /\ s[1] = "0"
    /\ \/ s[2] = "x" /\ AllIn(SubSeq(s, 3, Len(s)), {"0", "a", "b"})
       \/ s[2] = "b" /\ AllIn(SubSeq(s, 3, Len(s)), {"0"})

IsIntegerNumber(s) == s = <<>> \/ IsDecimalLiteral(s) \/ IsRadixLiteral(s)

----------------------------------------------------------------------------
(* deepIn, deepHas, deepGet, deepOwn (lines 20-87) *)

RECURSIVE InLoop(_, _, _)
InLoop(current, properties, i) ==
    IF i > Len(properties) THEN TRUE
    ELSE IF isObject(current) /\ HasProperty(current, properties[i])
    THEN InLoop(GetProp(current, properties[i]), properties, i + 1)
    ELSE FALSE

RECURSIVE HasLoop(_, _, _)
HasLoop(current, properties, i) ==
    IF i > Len(properties) THEN TRUE
    ELSE IF isObject(current) /\ hasOwnProperty(current, properties[i])
    THEN HasLoop(GetProp(current, properties[i]), properties, i + 1)
    ELSE FALSE

deepIn(object, propertyPath) == InLoop(object, getProperties(propertyPath), 1)

\* deepHas testing with "in" instead of hasOwnProperty.
deepHasInherited(object, propertyPath) ==
    InLoop(object, getProperties(propertyPath), 1)

deepHas(object, propertyPath) == HasLoop(object, getProperties(propertyPath), 1)

\* _.reduce(properties, function(object, property){ return object[property]; }, collection)
RECURSIVE ReduceGet(_, _, _)
ReduceGet(object, properties, i) ==
    IF i > Len(properties) THEN object
    ELSE ReduceGet(GetProp(object, properties[i]), properties, i + 1)

\* deepGet without its deepIn guard.
deepGetUnguarded(object, propertyPath) ==
    ReduceGet(object, getProperties(propertyPath), 1)

deepGet(object, propertyPath) ==
    LET properties == getProperties(propertyPath)
    IN  IF deepIn(object, ArrayPath(properties))
        THEN ReduceGet(object, properties, 1)
        ELSE Undefined

deepOwn(object, propertyPath) ==
    LET properties == getProperties(propertyPath)
    IN  IF deepHas(object, ArrayPath(properties))
        THEN ReduceGet(object, properties, 1)
        ELSE Undefined

----------------------------------------------------------------------------
(* deepSet (lines 95-110) *)

\* Choosing the container by the segment itself instead of the next one.
NewContainerByCurrent(properties, index) ==
    IF IsIntegerNumber(properties[index]) THEN EmptyArray ELSE EmptyObject

\* properties[index + 1] % 1 === 0 ? [] : {}
NewContainer(properties, index) ==
    IF IsIntegerNumber(properties[index + 1]) THEN EmptyArray ELSE EmptyObject

\* The object after its child at property was mutated in place: the child is
\* the object's own property, or an object it inherits.
StoreChild(object, property, child) ==
    IF property \in DOMAIN object.props
    THEN [object EXCEPT !.props = Put(@, property, child)]
    ELSE [object EXCEPT !.proto = Put(@, property, child)]

\* The loop with the last segment tested as index === properties.length.
RECURSIVE SetLoopOffByOne(_, _, _, _)
SetLoopOffByOne(currentObject, properties, index, value) ==
    IF index > Len(properties) THEN currentObject
    ELSE LET property == properties[index]
         IN  IF ~isObject(GetProp(currentObject, property))
             THEN SetProp(currentObject, property,
                      SetLoopOffByOne(IF index < Len(properties)
                                      THEN NewContainer(properties, index)
                                      ELSE EmptyObject,
                                      properties, index + 1, value))
             ELSE StoreChild(currentObject, property,
                      SetLoopOffByOne(GetProp(currentObject, property),
                                      properties, index + 1, value))

\* The loop creating a container at every segment but the last, whatever is
\* there.
RECURSIVE SetLoopAlwaysCreate(_, _, _, _)
SetLoopAlwaysCreate(currentObject, properties, index, value) ==
    IF index > Len(properties) THEN currentObject
    ELSE LET property == properties[index]
         IN  IF index = Len(properties)
             THEN SetProp(currentObject, property, value)
             ELSE SetProp(currentObject, property,
                      SetLoopAlwaysCreate(NewContainer(properties, index),
                                          properties, index + 1, value))

\* _.forEach(properties, function(property, index){ ... }) from index on:
\* what currentObject holds once the loop has run.
RECURSIVE SetLoop(_, _, _, _)
SetLoop(currentObject, properties, index, value) ==
    IF index > Len(properties) THEN currentObject
    ELSE LET property == properties[index]
         IN  IF index = Len(properties)
             THEN SetProp(currentObject, property, value)
             ELSE IF ~isObject(GetProp(currentObject, property))
             THEN \* create the missing object or array, then descend into it
                  SetProp(currentObject, property,
                      SetLoop(NewContainer(properties, index),
                              properties, index + 1, value))
             ELSE StoreChild(currentObject, property,
                      SetLoop(GetProp(currentObject, property),
                              properties, index + 1, value))

\* The collection after the call; deepSet returns this same collection.
deepSet(object, propertyPath, value) ==
    SetLoop(object, getProperties(propertyPath), 1, value)

----------------------------------------------------------------------------
(* deepMapValues (lines 167-177) *)

\* The callbacks of the model: (value, propertyPath) -> value.
Callbacks == {"times10", "pathLength"}

ApplyCallback(callback, value, propertyPath) ==
    IF callback = "times10" THEN Num(value.val * 10)
    ELSE Num(Len(propertyPath))

\* _.isDate, _.isRegExp
isDate(value) == value.kind = "date"
isRegExp(value) == value.kind = "regexp"

\* The order in which the own enumerable keys of an object are visited.
KeyOrder == <<Str1("0"), Str1("1"), Str1("2"), Str1("a"), Str1("b"),
              Str1("c"), Str1("x")>>

KeysInOrder(props) ==
    LET Own(k) == k \in DOMAIN props IN SelectSeq(KeyOrder, Own)

\* _.extend(object, source): the source's properties assigned onto object,
\* which is returned.
extend(object, source) ==
    [object EXCEPT !.props =
        [k \in (DOMAIN @) \cup (DOMAIN source) |->
            IF k \in DOMAIN source THEN source[k] ELSE @[k]]]

\* The recursion hands the callback the key alone as propertyPath.
ChildPathKeyOnly(properties, key) == <<key>>

\* _.flatten([properties, key])
ChildPath(properties, key) == properties \o <<key>>

\* [value |-> what the call returns, calls |-> the calls of callback it made,
\* in order].  _.mapValues visits the own enumerable properties.
RECURSIVE deepMapValues(_, _, _)
deepMapValues(object, callback, propertyPath) ==
    LET properties == getProperties(propertyPath)
    IN  IF isObject(object) /\ ~isDate(object) /\ ~isRegExp(object)
        THEN LET keys == KeysInOrder(object.props)
                 sub(k) == deepMapValues(object.props[k], callback,
                                         ArrayPath(ChildPath(properties, k)))
                 mapped == [k \in DOMAIN object.props |-> sub(k).value]
             IN  [value |-> extend(object, mapped),
                  calls |-> Concat([i \in 1..Len(keys) |-> sub(keys[i]).calls])]
        ELSE [value |-> ApplyCallback(callback, object, properties),
              calls |-> << [value |-> object, path |-> properties] >>]

----------------------------------------------------------------------------
(* The parser and the escaper on their own *)

ExampleStrings ==
    { <<"a", "[", "0", "]", ".", "b">>,      \* a[0].b
      <<"a", "[", "0", "]", "x">>,           \* a[0]x
      <<"a", "\\", ".", "b", ".", "c">> }    \* a\.b.c

ParseStrings == StringsUpTo(ParseChars, MaxStrLen) \cup ExampleStrings
ParseArrays == { <<>>, <<Str1("a")>>, <<<<"a", ".", "0">>, Str1("]")>> }
ParseInputs ==
    {StringPath(s) : s \in ParseStrings} \cup
    {ArrayPath(p) : p \in ParseArrays} \cup {OtherPath}

NoCall == [op |-> "none"]

ParseInit ==
    /\ pc = "ready"
    /\ collection = EmptyObject
    /\ last = NoCall
    /\ written = EmptyProps
    /\ nops = 0

GetProperties ==
    /\ pc = "ready"
    /\ \E propertyPath \in ParseInputs :
          last' = [op |-> "getProperties", input |-> propertyPath,
                   threw |-> FALSE,     \* no statement of lines 196-243 throws
                   result |-> getProperties(propertyPath)]
    /\ pc' = "done"
    /\ UNCHANGED <<collection, written, nops>>

EscapePropertyName ==
    /\ pc = "ready"
    /\ \E propertyName \in StringsUpTo(ParseChars, MaxNameLen) :
          LET escaped == deepEscapePropertyName(propertyName)
          IN  last' = [op |-> "deepEscapePropertyName", input |-> propertyName,
                       escaped |-> escaped,
                       parsed |-> getProperties(StringPath(escaped))]
    /\ pc' = "done"
    /\ UNCHANGED <<collection, written, nops>>

ParseNext == GetProperties \/ EscapePropertyName

ParseSpec == ParseInit /\ [][ParseNext]_vars

----------------------------------------------------------------------------
(* Sequences of deepSet calls on one collection *)

SeqsUpTo(S, n) == UNION {[1..k -> S] : k \in 0..n}

Keys == {Str1("a"), Str1("0"), Str1("x")}

ExamplePaths ==
    { <<Str1("a"), Str1("0"), Str1("b")>>,     \* a.0.b
      <<Str1("a"), Str1("x"), Str1("b")>> }    \* a.x.b

Paths == (SeqsUpTo(Keys, MaxPathLen) \ {<<>>}) \cup ExamplePaths

\* The path as a string: its segments escaped and joined by ".".
RECURSIVE JoinPath(_)
JoinPath(path) ==
    IF Len(path) = 1 THEN deepEscapePropertyName(path[1])
    ELSE deepEscapePropertyName(path[1]) \o <<".">> \o JoinPath(Tail(path))

PathInputs ==
    {ArrayPath(p) : p \in Paths} \cup {StringPath(JoinPath(p)) : p \in Paths}
    \cup {ArrayPath(<<>>), OtherPath}

Values == {Undefined, Num(1)}

\* {}, [], {a: 1, x: {0: 2}}, and an object that inherits x: 1 and a: {x: 2}.
InitTrees ==
    { EmptyObject,
      EmptyArray,
      Obj(P2(Str1("a"), Num(1), Str1("x"), Obj(P1(Str1("0"), Num(2))))),
      ObjWithProto(EmptyProps,
                   P2(Str1("x"), Num(1), Str1("a"), Obj(P1(Str1("x"), Num(2))))) }

IsPrefix(p, q) == Len(p) <= Len(q) /\ SubSeq(q, 1, Len(p)) = p
Comparable(p, q) == IsPrefix(p, q) \/ IsPrefix(q, p)

Init ==
    /\ pc = "ready"
    /\ collection \in InitTrees
    /\ last = NoCall
    /\ written = EmptyProps
    /\ nops = 0

DeepSet ==
    /\ nops < MaxOps
    /\ \E propertyPath \in PathInputs, value \in Values :
          LET properties == getProperties(propertyPath)
              result == deepSet(collection, propertyPath, value)
          IN  /\ collection' = result
              /\ last' = [op |-> "deepSet", input |-> propertyPath,
                          path |-> properties, value |-> value,
                          pre |-> collection, result |-> result]
              /\ written' =
                    IF properties = <<>> THEN written
                    ELSE [q \in {q \in DOMAIN written :
                                    ~Comparable(properties, q)}
                                \cup {properties} |->
                            IF q = properties THEN value ELSE written[q]]
    /\ nops' = nops + 1
    /\ pc' = pc

Next == DeepSet

Spec == Init /\ [][Next]_vars

----------------------------------------------------------------------------
(* One query on a collection *)

\* The collections a deepSet call on an initial tree produces, and two roots
\* that are no collection: undefined and 1.
QueryTrees ==
    InitTrees \cup {Undefined, Num(1)} \cup
    { deepSet(c, ArrayPath(p), v) :
         c \in InitTrees, p \in SeqsUpTo(Keys, MaxPathLen - 1), v \in Values }

QueryInit ==
    /\ pc = "ready"
    /\ collection \in QueryTrees
    /\ last = NoCall
    /\ written = EmptyProps
    /\ nops = 0

Query(op, propertyPath, result) ==
    /\ pc = "ready"
    /\ last' = [op |-> op, input |-> propertyPath,
                path |-> getProperties(propertyPath), result |-> result]
    /\ pc' = "done"
    /\ UNCHANGED <<collection, written, nops>>

DeepIn == \E pp \in PathInputs : Query("deepIn", pp, deepIn(collection, pp))
DeepHas == \E pp \in PathInputs : Query("deepHas", pp, deepHas(collection, pp))
DeepGet == \E pp \in PathInputs : Query("deepGet", pp, deepGet(collection, pp))
DeepOwn == \E pp \in PathInputs : Query("deepOwn", pp, deepOwn(collection, pp))

QueryNext == DeepIn \/ DeepHas \/ DeepGet \/ DeepOwn

QuerySpec == QueryInit /\ [][QueryNext]_vars

----------------------------------------------------------------------------
(* One deepMapValues call on a collection *)

MapLeaves == {Num(1), Num(2), DateV, RegExpV}
MapKeys == {Str1("a"), Str1("b")}
IndexKeys(n) == {KeyOrder[i] : i \in 1..n}

\* Maps from some of the keys to leaves.
LeafMaps(keys) == UNION {[D -> MapLeaves] : D \in SUBSET keys}

\* The trees nested at most d deep: leaves, and objects and dense arrays
\* whose entries are leaves but for at most one, a tree nested less deep.
RECURSIVE TreesOfDepth(_)
TreesOfDepth(d) ==
    IF d = 0 THEN MapLeaves
    ELSE LET sub == TreesOfDepth(d - 1) \ MapLeaves
         IN  MapLeaves
             \cup {Obj(g) : g \in LeafMaps(MapKeys)}
             \cup UNION {{Obj(Put(g, k, c)) : g \in LeafMaps(MapKeys \ {k}), c \in sub} :
                         k \in MapKeys}
             \cup UNION {{Arr(g) : g \in [IndexKeys(n) -> MapLeaves]} :
                         n \in 0..MaxArrayLen}
             \cup UNION {UNION {{Arr(Put(g, k, c)) :
                                   g \in [IndexKeys(n) \ {k} -> MapLeaves], c \in sub} :
                                k \in IndexKeys(n)} :
                         n \in 1..MaxArrayLen}

\* {a: {b: 1, c: 2}}
ExampleMapTree ==
    Obj(P1(Str1("a"), Obj(P2(Str1("b"), Num(1), Str1("c"), Num(2)))))

\* {a: {b: 1}, b: [a date]}: two containers side by side.
SiblingMapTree ==
    Obj(P2(Str1("a"), Obj(P1(Str1("b"), Num(1))),
           Str1("b"), Arr(P1(Str1("0"), DateV))))

MapTrees == TreesOfDepth(MaxDepth) \cup {ExampleMapTree, SiblingMapTree}

MapInit ==
    /\ pc = "ready"
    /\ collection \in MapTrees
    /\ last = NoCall
    /\ written = EmptyProps
    /\ nops = 0

\* deepMapValues(collection, callback): propertyPath is undefined.  A
\* container is mutated in place by _.extend and returned.
DeepMapValues ==
    /\ pc = "ready"
    /\ \E callback \in Callbacks :
          LET r == deepMapValues(collection, callback, OtherPath)
          IN  /\ last' = [op |-> "deepMapValues", callback |-> callback,
                          pre |-> collection, result |-> r.value,
                          calls |-> r.calls]
              /\ collection' =
                    IF isObject(collection) /\ ~isDate(collection)
                       /\ ~isRegExp(collection)
                    THEN r.value ELSE collection
    /\ pc' = "done"
    /\ UNCHANGED <<written, nops>>

MapNext == DeepMapValues

MapSpec == MapInit /\ [][MapNext]_vars

----------------------------------------------------------------------------
(* Properties of the parser and the escaper, under ParseSpec *)

\* The number of backslashes right before position i.
RECURSIVE BackslashRunBefore(_, _)
BackslashRunBefore(s, i) ==
    IF i = 1 \/ s[i - 1] # "\\" THEN 0 ELSE 1 + BackslashRunBefore(s, i - 1)

\* The character at i is not escaped.
Unescaped(s, i) == BackslashRunBefore(s, i) % 2 = 0

UnescapedDots(s) ==
    Cardinality({i \in 1..Len(s) : s[i] = "." /\ Unescaped(s, i)})

\* An un-escaped "]" that is neither last nor followed by ".".
MalformedBracket(s) ==
    \E i \in 1..(Len(s) - 1) : s[i] = "]" /\ Unescaped(s, i) /\ s[i + 1] # "."

ParsedString == last.op = "getProperties" /\ last.input.type = "string"

\* C3: parsing the escaped form of any single raw segment s yields exactly
\* the one-element path [s].
C3_EscapeParseRoundTrip ==
    last.op = "deepEscapePropertyName" => last.parsed = <<last.input>>

C3_Witness ==
    /\ last.op = "deepEscapePropertyName"
    /\ last.input = <<".", "\\", "a">>
    /\ last.escaped = <<"\\", ".", "\\", "\\", "a">>
    /\ last.parsed = <<last.input>>

\* C4 as stated: a string path with an un-escaped "]" that is neither last
\* nor followed by "." makes the parse fail with a SyntaxError.
C4_Original ==
    (ParsedString /\ MalformedBracket(last.input.value)) => last.threw

\* C4 amended: parsing a string path never fails; an un-escaped "]" followed
\* by any character is an ordinary character kept in its segment, so the
\* segments hold every "]" of the string and a string with such a "]" and no
\* "." or "\" is its own single segment (parse("a[0]x") yields ["a[0]x"]).
C4_BracketKeptNoError ==
    ParsedString =>
        /\ ~last.threw
        /\ CountChar(Concat(last.result), "]") = CountChar(last.input.value, "]")
        /\ (MalformedBracket(last.input.value)
            /\ CountChar(last.input.value, ".") = 0
            /\ CountChar(last.input.value, "\\") = 0)
           => last.result = <<last.input.value>>

C4_Witness ==
    /\ ParsedString
    /\ last.input.value = <<"a", "[", "0", "]", "x">>
    /\ MalformedBracket(last.input.value)
    /\ last.result = << <<"a", "[", "0", "]", "x">> >>

\* C5 as stated: an un-escaped "[" ends the segment as "." does and an
\* un-escaped "]" adds nothing to a segment, so that no segment parsed from
\* a string without "\" holds a bracket and parse("a[0].b") yields
\* ["a", "0", "b"].
C5_Original ==
    ParsedString =>
        /\ CountChar(last.input.value, "\\") = 0
           => \A i \in 1..Len(last.result) :
                 CountChar(last.result[i], "[") + CountChar(last.result[i], "]") = 0
        /\ last.input.value = <<"a", "[", "0", "]", ".", "b">>
           => last.result = <<Str1("a"), Str1("0"), Str1("b")>>

\* C5 amended: only an un-escaped "." ends a segment; "[" and "]" are
\* ordinary characters that stay in the segment.  The path has one segment
\* more than the string has un-escaped ".", the segments hold every "[" of
\* the string, and parse("a[0].b") yields ["a[0]", "b"].
C5_OnlyDotsSplit ==
    ParsedString =>
        /\ Len(last.result) = 1 + UnescapedDots(last.input.value)
        /\ CountChar(Concat(last.result), "[") = CountChar(last.input.value, "[")
        /\ last.input.value = <<"a", "[", "0", "]", ".", "b">>
           => last.result = << <<"a", "[", "0", "]">>, Str1("b") >>

C5_Witness ==
    /\ ParsedString
    /\ last.input.value = <<"a", "[", "0", "]", ".", "b">>
    /\ last.result = << <<"a", "[", "0", "]">>, Str1("b") >>

----------------------------------------------------------------------------
(* Properties of deepSet, under Spec *)

SetDone == last.op = "deepSet" /\ Len(last.path) > 0

C2_Autovivification ==
    last.op = "deepSet" =>
        /\ \A i \in 1..(Len(last.path) - 1) :
              LET prefix == ArrayPath(SubSeq(last.path, 1, i))
                  before == deepGet(last.pre, prefix)
                  after == deepGet(collection, prefix)
              IN  IF isObject(before)
                  THEN after.kind = before.kind
                  ELSE /\ after.kind = IF IsIntegerNumber(last.path[i + 1])
                                       THEN "array" ELSE "object"
                       /\ DOMAIN after.props = {last.path[i + 1]}
                       /\ DOMAIN after.proto = {}
        /\ (last.pre = EmptyObject /\ last.value = Num(1)
            /\ last.input = StringPath(<<"a", ".", "0", ".", "b">>))
           => collection =
                 Obj(P1(Str1("a"), Arr(P1(Str1("0"), Obj(P1(Str1("b"), Num(1)))))))
        /\ (last.pre = EmptyObject /\ last.value = Num(1)
            /\ last.input = StringPath(<<"a", ".", "x", ".", "b">>))
           => collection =
                 Obj(P1(Str1("a"), Obj(P1(Str1("x"), Obj(P1(Str1("b"), Num(1)))))))

C2_Witness ==
    /\ last.op = "deepSet"
    /\ last.pre = EmptyObject
    /\ last.value = Num(1)
    /\ last.input = StringPath(<<"a", ".", "0", ".", "b">>)
    /\ collection =
          Obj(P1(Str1("a"), Arr(P1(Str1("0"), Obj(P1(Str1("b"), Num(1)))))))

----------------------------------------------------------------------------
(* Properties of the queries, under QuerySpec *)

\* Walking path from value: whether every segment is a property (own or
\* inherited) of a container, and the value reached.
RECURSIVE Lookup(_, _)
Lookup(value, path) ==
    IF path = <<>> THEN [found |-> TRUE, value |-> value]
    ELSE IF value.kind \in {"object", "array", "date", "regexp"}
            /\ Head(path) \in DOMAIN value.props
    THEN Lookup(value.props[Head(path)], Tail(path))
    ELSE IF value.kind \in {"object", "array", "date", "regexp"}
            /\ Head(path) \in DOMAIN value.proto
    THEN Lookup(value.proto[Head(path)], Tail(path))
    ELSE [found |-> FALSE, value |-> Undefined]

\* The same walk through own properties only.
RECURSIVE OwnLookup(_, _)
OwnLookup(value, path) ==
    IF path = <<>> THEN [found |-> TRUE, value |-> value]
    ELSE IF value.kind \in {"object", "array", "date", "regexp"}
            /\ Head(path) \in DOMAIN value.props
    THEN OwnLookup(value.props[Head(path)], Tail(path))
    ELSE [found |-> FALSE, value |-> Undefined]

\* Some value stored along the path is undefined.
StoredUndefinedAlong(value, path) ==
    \E i \in 0..Len(path) :
        LET lk == Lookup(value, SubSeq(path, 1, i))
        IN  lk.found /\ lk.value = Undefined

\* The walk reaches a value that is no container before the path ends.
ReachesLeafBeforeEnd(value, path) ==
    \E i \in 0..(Len(path) - 1) :
        LET lk == Lookup(value, SubSeq(path, 1, i))
        IN  lk.found /\ lk.value.kind \in {"number", "undefined"}

\* C6: where no value stored along the path is undefined, deepIn is true
\* exactly when deepGet is not undefined; deepGet returns undefined, and
\* does not throw, when a segment is missing or the walk reaches a value
\* that is no container before the path ends.
C6_ExistenceAgreesWithGet ==
    /\ last.op = "deepGet" =>
          /\ last.result # TypeErrorThrown
          /\ ~Lookup(collection, last.path).found => last.result = Undefined
          /\ ~StoredUndefinedAlong(collection, last.path)
             => (deepIn(collection, last.input) <=> last.result # Undefined)
    /\ (last.op = "deepIn" /\ ~StoredUndefinedAlong(collection, last.path))
          => (last.result <=> deepGet(collection, last.input) # Undefined)

C6_Witness ==
    /\ last.op = "deepGet"
    /\ Len(last.path) = 3
    /\ ReachesLeafBeforeEnd(collection, last.path)
    /\ ~StoredUndefinedAlong(collection, last.path)
    /\ ~deepIn(collection, last.input)
    /\ last.result = Undefined

\* The path is one property that the collection inherits and does not own.
InheritedOnly(value, path) ==
    /\ Len(path) = 1
    /\ path[1] \in DOMAIN value.proto
    /\ path[1] \notin DOMAIN value.props

\* C7: deepHas is true only when every segment is an own property of the
\* container reached so far, deepIn also accepts inherited properties; for
\* a property "x" that is inherited and not own, deepIn is true, deepHas is
\* false, deepOwn returns undefined and deepGet the inherited value.
C7_OwnVersusInherited ==
    /\ last.op = "deepHas" =>
          /\ last.result = OwnLookup(collection, last.path).found
          /\ last.result => deepIn(collection, last.input)
    /\ last.op = "deepIn" => last.result = Lookup(collection, last.path).found
    /\ (last.op # "none" /\ InheritedOnly(collection, last.path)) =>
          /\ last.op = "deepIn" => last.result = TRUE
          /\ last.op = "deepHas" => last.result = FALSE
          /\ last.op = "deepOwn" => last.result = Undefined
          /\ last.op = "deepGet" => last.result = collection.proto[last.path[1]]

C7_Witness ==
    /\ last.op = "deepHas"
    /\ last.input = StringPath(Str1("x"))
    /\ InheritedOnly(collection, last.path)
    /\ deepIn(collection, last.input)
    /\ last.result = FALSE

----------------------------------------------------------------------------
(* Properties of deepMapValues, under MapSpec *)

IsContainer(value) == value.kind \in {"object", "array"}

MapPaths ==
    SeqsUpTo(MapKeys \cup IndexKeys(MaxArrayLen) \cup {Str1("b"), Str1("c")},
             MaxDepth)

\* The node of the tree at path, through own properties of containers.
RECURSIVE NodeAt(_, _)
NodeAt(tree, path) ==
    IF path = <<>> THEN [found |-> TRUE, value |-> tree]
    ELSE IF IsContainer(tree) /\ Head(path) \in DOMAIN tree.props
    THEN NodeAt(tree.props[Head(path)], Tail(path))
    ELSE [found |-> FALSE, value |-> Undefined]

NodePaths(tree) == {p \in MapPaths : NodeAt(tree, p).found}
LeafPaths(tree) == {p \in NodePaths(tree) : ~IsContainer(NodeAt(tree, p).value)}
ContainerPaths(tree) == NodePaths(tree) \ LeafPaths(tree)

\* C8: the callback is invoked exactly once per leaf (a value that is no
\* container, a date or a regular expression), never on a container, with
\* the leaf and the keys from the root to it; the result has the containers
\* of the original and each leaf replaced by what the callback returned.
C8_MapVisitsEveryLeafOnce ==
    last.op = "deepMapValues" =>
        /\ Len(last.calls) = Cardinality(LeafPaths(last.pre))
        /\ {last.calls[i].path : i \in 1..Len(last.calls)} = LeafPaths(last.pre)
        /\ \A i \in 1..Len(last.calls) :
              /\ ~IsContainer(last.calls[i].value)
              /\ last.calls[i].value = NodeAt(last.pre, last.calls[i].path).value
        /\ NodePaths(last.result) = NodePaths(last.pre)
        /\ \A p \in ContainerPaths(last.pre) :
              NodeAt(last.result, p).value.kind = NodeAt(last.pre, p).value.kind
        /\ \A p \in LeafPaths(last.pre) :
              NodeAt(last.result, p).value =
                 ApplyCallback(last.callback, NodeAt(last.pre, p).value, p)
        /\ (last.pre = ExampleMapTree /\ last.callback = "times10") =>
              /\ last.result =
                    Obj(P1(Str1("a"), Obj(P2(Str1("b"), Num(10), Str1("c"), Num(20)))))
              /\ [i \in 1..Len(last.calls) |-> last.calls[i].path] =
                    << <<Str1("a"), Str1("b")>>, <<Str1("a"), Str1("c")>> >>

C8_Witness ==
    /\ last.op = "deepMapValues"
    /\ last.pre = ExampleMapTree
    /\ last.callback = "times10"
    /\ Len(last.calls) = 2
    /\ last.result =
          Obj(P1(Str1("a"), Obj(P2(Str1("b"), Num(10), Str1("c"), Num(20)))))

\* C9: deepMapValues does not modify its input: after the call on a
\* container, every leaf of the caller's tree holds the value it held before.
C9_InputUnmodified ==
    (last.op = "deepMapValues" /\ IsContainer(last.pre)) =>
        \A p \in LeafPaths(last.pre) :
            NodeAt(collection, p) = NodeAt(last.pre, p)

=============================================================================
